---- MODULE Spec2Model ----
(***************************************************************************)
(* Model of src/server/chatbot_api.py: the dataset summarizer              *)
(* (create_data_summary) and the chat relay (chat).                        *)
(*                                                                         *)
(* Representation.                                                         *)
(*  - A Python str is a sequence of one-character strings, of the          *)
(*    characters up to U+00FF.                                             *)
(*  - A JSON scalar (a cell of a row, a field of the request body) is a    *)
(*    tagged record; each variant has its own field names.                 *)
(*  - A row is a function from a subset of the column names to cells; a    *)
(*    key that is not in the row reads as None (dict.get).                 *)
(*  - A float is an IEEE 754 double, held exactly: sign, significand and  *)
(*    binary exponent, or an infinity, or nan.  float(), +, /, round and   *)
(*    the formatting of a float are computed on the exact values and       *)
(*    rounded where the double arithmetic rounds.                          *)
(*  - A percentage "12.5%" is the integer number of its tenths, 125.       *)
(***************************************************************************)
EXTENDS Integers, Sequences, FiniteSets, TLC

VARIABLES
    request,    \* the JSON body of the call (chat), or the arguments (direct call)
    pc,         \* where the invocation stands
    summary,    \* outcome of create_data_summary: a summary or a raised exception
    summaries,  \* number of create_data_summary invocations
    posts,      \* number of outbound HTTP POSTs issued
    upstream,   \* outcome of the outbound POST
    response,   \* the response returned to the caller
    responses,  \* number of responses returned
    caught      \* the except clause of chat that ran, "none" if none did

vars == <<request, pc, summary, summaries, posts, upstream, response, responses, caught>>

(***************************************************************************)
(* Bounds of the model.                                                    *)
(***************************************************************************)
\* Rows of the exhaustively enumerated datasets.
MaxRows == 2
\* Largest row count of the generated datasets (beyond the 500 tier).
MaxSampleRows == 503
\* Rows of the datasets sent through chat.
MaxChatRows == 2

(***************************************************************************)
(* Python values                                                           *)
(***************************************************************************)
None == [tag |-> "none"]
PyInt(n) == [tag |-> "int", n |-> n]
PyStr(s) == [tag |-> "str", s |-> s]
PyBool(b) == [tag |-> "bool", b |-> b]
\* A JSON number with a fraction or an exponent: the float x.
PyReal(x) == [tag |-> "float", x |-> x]
\* The JSON integer 10^400: a Python int beyond the range of a double.
BigInt == [tag |-> "bigint"]
\* The JSON array [1].
PyList == [tag |-> "list"]

Digits == <<"0", "1", "2", "3", "4", "5", "6", "7", "8", "9">>

DigitValue(c) == (CHOOSE i \in 1..10 : Digits[i] = c) - 1

IsDigit(c) == \E i \in 1..10 : Digits[i] = c

RECURSIVE NatDigits(_)
NatDigits(n) ==
    IF n < 10 THEN <<Digits[n + 1]>>
    ELSE Append(NatDigits(n \div 10), Digits[(n % 10) + 1])

\* The characters up to U+00FF that lower() changes, and what it makes of
\* each: the letters A to Z and the accented capitals U+00C0 to U+00DE (the
\* multiplication sign U+00D7, which is no letter, is left as it is).
UpperChars ==
    <<"A", "B", "C", "D", "E", "F", "G", "H", "I", "J", "K", "L", "M",
      "N", "O", "P", "Q", "R", "S", "T", "U", "V", "W", "X", "Y", "Z",
      "À", "Á", "Â", "Ã", "Ä", "Å", "Æ", "Ç", "È", "É", "Ê", "Ë", "Ì",
      "Í", "Î", "Ï", "Ð", "Ñ", "Ò", "Ó", "Ô", "Õ", "Ö", "Ø", "Ù", "Ú",
      "Û", "Ü", "Ý", "Þ">>

LowerChars ==
    <<"a", "b", "c", "d", "e", "f", "g", "h", "i", "j", "k", "l", "m",
      "n", "o", "p", "q", "r", "s", "t", "u", "v", "w", "x", "y", "z",
      "à", "á", "â", "ã", "ä", "å", "æ", "ç", "è", "é", "ê", "ë", "ì",
      "í", "î", "ï", "ð", "ñ", "ò", "ó", "ô", "õ", "ö", "ø", "ù", "ú",
      "û", "ü", "ý", "þ">>

\* s.lower()
Lower(s) ==
    [i \in 1..Len(s) |->
        IF \E k \in 1..Len(UpperChars) : UpperChars[k] = s[i]
        THEN LowerChars[CHOOSE k \in 1..Len(UpperChars) : UpperChars[k] = s[i]]
        ELSE s[i]]

(***************************************************************************)
(* Naturals of any size                                                    *)
(*                                                                         *)
(* A natural is the sequence of its digits in base 2^15 ("limbs"), the     *)
(* lowest first and the highest not 0; zero is the empty sequence.         *)
(***************************************************************************)
LimbBits == 15

Base == 2^LimbBits

Max(a, b) == IF a >= b THEN a ELSE b

Min(a, b) == IF a <= b THEN a ELSE b

Limb(a, i) == IF (1 <= i) /\ (i <= Len(a)) THEN a[i] ELSE 0

\* The limbs without the zeros at the high end.
NatTrim(a) ==
    IF \A i \in 1..Len(a) : a[i] = 0 THEN <<>>
    ELSE SubSeq(a, 1, CHOOSE i \in 1..Len(a) :
                        (a[i] # 0) /\ (\A j \in (i + 1)..Len(a) : a[j] = 0))

\* The natural of an integer n >= 0.
RECURSIVE NatOfInt(_)
NatOfInt(n) == IF n = 0 THEN <<>> ELSE <<n % Base>> \o NatOfInt(n \div Base)

\* The integer of a natural below 2^31.
RECURSIVE NatToInt(_)
NatToInt(a) == IF Len(a) = 0 THEN 0 ELSE a[1] + (Base * NatToInt(Tail(a)))

\* a + b of two sequences of limbs.  A carry comes into limb i when some
\* limb below overflows and every limb between the two is full.
AddLimbs(a, b) ==
    LET CarryInto(i) ==
            \E j \in 1..(i - 1) :
                /\ Limb(a, j) + Limb(b, j) >= Base
                /\ \A k \in (j + 1)..(i - 1) : Limb(a, k) + Limb(b, k) = Base - 1
    IN  NatTrim([i \in 1..(Max(Len(a), Len(b)) + 1) |->
                    (Limb(a, i) + Limb(b, i) + (IF CarryInto(i) THEN 1 ELSE 0)) % Base])

NatAdd(a, b) ==
    IF Len(a) = 0 THEN b ELSE IF Len(b) = 0 THEN a ELSE AddLimbs(a, b)

\* a - b for a >= b.  A borrow comes into limb i when some limb below falls
\* short and every limb between the two is level.
NatSub(a, b) ==
    LET BorrowInto(i) ==
            \E j \in 1..(i - 1) :
                /\ Limb(a, j) < Limb(b, j)
                /\ \A k \in (j + 1)..(i - 1) : Limb(a, k) = Limb(b, k)
    IN  IF Len(b) = 0 THEN a
        ELSE NatTrim([i \in 1..Len(a) |->
                        (Limb(a, i) - Limb(b, i) - (IF BorrowInto(i) THEN 1 ELSE 0)
                            + Base) % Base])

\* a < b
NatLess(a, b) ==
    \/ Len(a) < Len(b)
    \/ /\ Len(a) = Len(b)
       /\ \E i \in 1..Len(a) :
            (a[i] < b[i]) /\ (\A j \in (i + 1)..Len(a) : a[j] = b[j])

\* a * k for an integer k in 0..2^15
NatMulSmall(a, k) ==
    IF (Len(a) = 0) \/ (k = 0) THEN <<>>
    ELSE AddLimbs([i \in 1..Len(a) |-> (a[i] * k) % Base],
                  [i \in 1..(Len(a) + 1) |->
                        IF i = 1 THEN 0 ELSE (a[i - 1] * k) \div Base])

\* a times the limbs lo..hi of b, each at its place
RECURSIVE MulRange(_, _, _, _)
MulRange(a, b, lo, hi) ==
    IF lo = hi
    THEN LET Placed(p) ==
                IF Len(p) = 0 THEN <<>>
                ELSE [i \in 1..(Len(p) + lo - 1) |-> IF i < lo THEN 0 ELSE p[i - lo + 1]]
         IN  Placed(NatMulSmall(a, b[lo]))
    ELSE NatAdd(MulRange(a, b, lo, (lo + hi) \div 2),
                MulRange(a, b, ((lo + hi) \div 2) + 1, hi))

NatMul(a, b) ==
    IF (Len(a) = 0) \/ (Len(b) = 0) THEN <<>> ELSE NatTrim(MulRange(a, b, 1, Len(b)))

\* b^k
RECURSIVE NatPow(_, _)
NatPow(b, k) ==
    IF k = 0 THEN <<1>>
    ELSE LET h == NatPow(b, k \div 2)
         IN  IF Len(h) = 0 THEN <<>>
             ELSE IF k % 2 = 1 THEN NatMul(NatMul(h, h), b)
             ELSE NatMul(h, h)

\* a * 2^n
NatShl(a, n) ==
    IF Len(a) = 0 THEN <<>>
    ELSE NatTrim([i \in 1..(Len(a) + (n \div LimbBits) + 1) |->
                ((Limb(a, i - (n \div LimbBits)) * (2^(n % LimbBits))) % Base)
                + (Limb(a, i - (n \div LimbBits) - 1)
                     \div (2^(LimbBits - (n % LimbBits))))])

\* a \div 2^n
NatShr(a, n) ==
    IF n \div LimbBits >= Len(a) THEN <<>>
    ELSE NatTrim([i \in 1..(Len(a) - (n \div LimbBits)) |->
                (a[i + (n \div LimbBits)] \div (2^(n % LimbBits)))
                + ((Limb(a, i + (n \div LimbBits) + 1) % (2^(n % LimbBits)))
                      * (2^(LimbBits - (n % LimbBits))))])

\* The number of bits of a: 0 for zero, else n with 2^(n-1) <= a < 2^n.
NatBitLen(a) ==
    IF Len(a) = 0 THEN 0
    ELSE (LimbBits * (Len(a) - 1))
         + (CHOOSE n \in 1..LimbBits :
                (2^(n - 1) <= a[Len(a)]) /\ (a[Len(a)] < 2^n))

\* The number of zero bits at the low end of a, for a > 0.
NatTrailingZeros(a) ==
    LET low == CHOOSE i \in 1..Len(a) : (a[i] # 0) /\ (\A j \in 1..(i - 1) : a[j] = 0)
    IN  (LimbBits * (low - 1))
        + (CHOOSE n \in 0..(LimbBits - 1) :
                (a[low] % (2^(n + 1)) # 0) /\ (a[low] % (2^n) = 0))

\* Bit k of a, bit 0 being the lowest.
NatBit(a, k) == (Limb(a, (k \div LimbBits) + 1) \div (2^(k % LimbBits))) % 2

\* a / 2^s to the nearest integer, a half to the even one: the quotient goes
\* up when the bits cut off are more than half, or half with the quotient odd.
NatShrHalfEven(a, s) ==
    LET LowZero(k) ==
            /\ \A i \in 1..(k \div LimbBits) : Limb(a, i) = 0
            /\ Limb(a, (k \div LimbBits) + 1) % (2^(k % LimbBits)) = 0
    IN  IF s <= 0 THEN a
        ELSE NatAdd(NatShr(a, s),
                    IF /\ NatBit(a, s - 1) = 1
                       /\ (~LowZero(s - 1)) \/ (NatBit(a, s) = 1)
                    THEN <<1>> ELSE <<>>)

\* Division by a limb d, from limb i of a down, rem being the remainder of
\* the limbs above i and q the limbs of the quotient so far.
RECURSIVE DivSmallLoop(_, _, _, _, _)
DivSmallLoop(a, d, i, rem, q) ==
    IF i = 0 THEN [quot |-> NatTrim(q), rem |-> NatOfInt(rem)]
    ELSE DivSmallLoop(a, d, i - 1, ((rem * Base) + a[i]) % d,
                      <<((rem * Base) + a[i]) \div d>> \o q)

\* n steps of restoring division by d, or as many as there are bits left:
\* st.k is the place of the quotient bit to find, st.r what is left of the
\* dividend, st.q the bits found.
RECURSIVE DivSteps(_, _, _)
DivSteps(st, d, n) ==
    IF (st.k < 0) \/ (n = 0) THEN st
    ELSE IF n > 1 THEN DivSteps(DivSteps(st, d, n \div 2), d, n - (n \div 2))
    ELSE IF NatLess(st.r, NatShl(d, st.k))
    THEN [r |-> st.r, q |-> NatShl(st.q, 1), k |-> st.k - 1]
    ELSE [r |-> NatSub(st.r, NatShl(d, st.k)),
          q |-> NatAdd(NatShl(st.q, 1), <<1>>), k |-> st.k - 1]

\* The bits of a quotient that NatDivMod is asked for.
QuotientBits == 60

\* Quotient and remainder of a by d > 0, for a < d * 2^60.
NatDivMod(a, d) ==
    IF Len(d) = 1 THEN DivSmallLoop(a, d[1], Len(a), 0, <<>>)
    ELSE LET Result(st) == [quot |-> st.q, rem |-> st.r]
         IN  Result(DivSteps([r |-> a, q |-> <<>>, k |-> QuotientBits - 1], d,
                             QuotientBits))

(***************************************************************************)
(* Python floats                                                           *)
(*                                                                         *)
(* A float is an IEEE 754 double.  A finite one is                         *)
(*   [kind |-> "finite", neg, mant, exp]                                   *)
(* and stands for (-1)^neg * mant * 2^exp, mant being a natural (limbs)    *)
(* that is odd, or zero with exp = 0: 1.5 is mant 3, exp -1; 6.0 is mant   *)
(* 3, exp 1; -0.0 is neg, mant zero.  The others are                       *)
(* [kind |-> "inf", neg] and [kind |-> "nan"].                             *)
(***************************************************************************)
\* Bits of the significand of a double.
MantissaBits == 53

\* The lowest bit of a double weighs 2^MinExponent.
MinExponent == -1074

\* Every double is below 2^MaxExponent.
MaxExponent == 1024

Zero(neg) == [kind |-> "finite", neg |-> neg, mant |-> <<>>, exp |-> 0]

Infinity(neg) == [kind |-> "inf", neg |-> neg]

NaN == [kind |-> "nan"]

\* The double nearest to (-1)^neg * m * 2^e, ties to even: 53 bits are kept,
\* fewer below 2^-1022, so m is rounded to a multiple r of 2^q; the result is
\* an infinity from 2^1024 on.
Round53(neg, m, e) ==
    LET \* the double (-1)^neg * r * 2^q, r having z zero bits at the low end
        Packed(q, r, z) ==
            IF NatBitLen(r) + q > MaxExponent THEN Infinity(neg)
            ELSE [kind |-> "finite", neg |-> neg, mant |-> NatShr(r, z), exp |-> q + z]
        Kept(q, r) == IF Len(r) = 0 THEN Zero(neg) ELSE Packed(q, r, NatTrailingZeros(r))
        RoundedAt(q) == Kept(q, NatShrHalfEven(m, q - e))
    IN  IF Len(m) = 0 THEN Zero(neg)
        ELSE RoundedAt(Max(Max(NatBitLen(m) + e - MantissaBits, MinExponent), e))

\* Bits of a quotient computed before it is rounded to a double.
GuardedBits == 56

\* The double nearest to (-1)^neg * (n / d) * 2^e2, for naturals n, d > 0:
\* the quotient of n * 2^k by d has 56 to 58 bits, and one more bit tells
\* whether the division left a remainder.
RoundRational(neg, n, d, e2) ==
    LET Sticky(dm, k) ==
            Round53(neg, NatAdd(NatShl(dm.quot, 1),
                                IF Len(dm.rem) = 0 THEN <<>> ELSE <<1>>),
                    e2 - k - 1)
        Scaled(k) ==
            Sticky(NatDivMod(IF k >= 0 THEN NatShl(n, k) ELSE n,
                             IF k >= 0 THEN d ELSE NatShl(d, 0 - k)), k)
    IN  IF Len(n) = 0 THEN Zero(neg)
        ELSE Scaled(GuardedBits + NatBitLen(d) - NatBitLen(n))

\* float(n) of an int n of the checker's range
FloatOfInt(n) ==
    IF n = 0 THEN Zero(FALSE)
    ELSE IF n < 0 THEN Round53(TRUE, NatOfInt(0 - n), 0)
    ELSE Round53(FALSE, NatOfInt(n), 0)

\* x + y: the sum of two finite doubles is exact, on significands a and b
\* brought to the same exponent e, and then rounded.
FloatAdd(x, y) ==
    IF (x.kind = "nan") \/ (y.kind = "nan") THEN NaN
    ELSE IF x.kind = "inf"
    THEN (IF (y.kind = "inf") /\ (y.neg # x.neg) THEN NaN ELSE x)
    ELSE IF y.kind = "inf" THEN y
    ELSE LET Aligned(a, b, e) ==
                IF x.neg = y.neg THEN Round53(x.neg, NatAdd(a, b), e)
                ELSE IF a = b THEN Zero(FALSE)
                ELSE Round53(IF NatLess(a, b) THEN y.neg ELSE x.neg,
                             IF NatLess(a, b) THEN NatSub(b, a) ELSE NatSub(a, b), e)
         IN  Aligned(NatShl(x.mant, x.exp - Min(x.exp, y.exp)),
                     NatShl(y.mant, y.exp - Min(x.exp, y.exp)), Min(x.exp, y.exp))

\* x < y
FloatLess(x, y) ==
    LET Top(u) == NatBitLen(u.mant) + u.exp
        \* |u| < |v| for finite u, v that are not zero
        MagnitudeLess(u, v) ==
            IF Top(u) # Top(v) THEN Top(u) < Top(v)
            ELSE NatLess(NatShl(u.mant, u.exp - Min(u.exp, v.exp)),
                         NatShl(v.mant, v.exp - Min(u.exp, v.exp)))
    IN  IF (x.kind = "nan") \/ (y.kind = "nan") THEN FALSE
        ELSE IF x.kind = "inf" THEN x.neg /\ ~((y.kind = "inf") /\ y.neg)
        ELSE IF y.kind = "inf" THEN ~y.neg
        ELSE IF Len(x.mant) = 0 THEN (~y.neg) /\ (Len(y.mant) > 0)
        ELSE IF Len(y.mant) = 0 THEN x.neg
        ELSE IF x.neg # y.neg THEN x.neg
        ELSE MagnitudeLess(IF x.neg THEN y ELSE x, IF x.neg THEN x ELSE y)

\* x / n for an int n > 0
FloatDivInt(x, n) ==
    IF x.kind # "finite" THEN x
    ELSE RoundRational(x.neg, x.mant, NatOfInt(n), x.exp)

\* x * k for an int k in 1..2^15
FloatMulSmall(x, k) ==
    IF x.kind # "finite" THEN x
    ELSE Round53(x.neg, NatMulSmall(x.mant, k), x.exp)

\* round(x, 2): the double nearest to the decimal with two places that is
\* nearest to x, which is x * 100 to the nearest integer (a half to the even
\* one, on the exact value of x) over 100.  A double without fraction bits is
\* its own rounding, and so are the infinities and nan.
Round2(x) ==
    IF x.kind # "finite" THEN x
    ELSE IF x.exp >= 0 THEN x
    ELSE RoundRational(x.neg, NatShrHalfEven(NatMulSmall(x.mant, 100), 0 - x.exp),
                       <<100>>, 0)

\* x * 10 to the nearest integer, a half to the even one, for finite x >= 0
\* below 2^31 / 10.
Tenths(x) ==
    IF x.exp >= 0 THEN NatToInt(NatShl(NatMulSmall(x.mant, 10), x.exp))
    ELSE NatToInt(NatShrHalfEven(NatMulSmall(x.mant, 10), 0 - x.exp))

(***************************************************************************)
(* float(str)                                                              *)
(***************************************************************************)
\* The whitespace float() strips, of the characters up to U+00FF: space,
\* tab, line feed, carriage return, form feed, vertical tab (U+000B), next
\* line (U+0085) and no-break space (U+00A0).  The separators U+001C to
\* U+001F are not stripped.
IsSpace(c) == c \in {" ", "\t", "\n", "\r", "\f", "", "", " "}

\* s.strip()
Strip(s) ==
    IF \A i \in 1..Len(s) : IsSpace(s[i]) THEN <<>>
    ELSE SubSeq(s,
                CHOOSE i \in 1..Len(s) :
                    (~IsSpace(s[i])) /\ (\A j \in 1..(i - 1) : IsSpace(s[j])),
                CHOOSE i \in 1..Len(s) :
                    (~IsSpace(s[i])) /\ (\A j \in (i + 1)..Len(s) : IsSpace(s[j])))

AllDigits(s) == \A i \in 1..Len(s) : IsDigit(s[i])

\* Every underscore stands between two digits.
UnderscoresOk(s) ==
    \A i \in 1..Len(s) :
        (s[i] = "_") =>
            /\ (i > 1) /\ (i < Len(s))
            /\ IsDigit(s[i - 1]) /\ IsDigit(s[i + 1])

\* The index of the first c in s, Len(s) + 1 if there is none.
IndexOf(s, c) ==
    IF \E i \in 1..Len(s) : s[i] = c
    THEN CHOOSE i \in 1..Len(s) : (s[i] = c) /\ (\A j \in 1..(i - 1) : s[j] # c)
    ELSE Len(s) + 1

\* The digits without the zeros in front.
StripZeros(s) ==
    IF \A i \in 1..Len(s) : s[i] = "0" THEN <<>>
    ELSE SubSeq(s, CHOOSE i \in 1..Len(s) :
                        (s[i] # "0") /\ (\A j \in 1..(i - 1) : s[j] = "0"),
                Len(s))

\* The int of a run of at most 9 digits.
RECURSIVE DigitsValue(_)
DigitsValue(s) ==
    IF Len(s) = 0 THEN 0
    ELSE (10 * DigitsValue(SubSeq(s, 1, Len(s) - 1))) + DigitValue(s[Len(s)])

\* The natural of the digits lo..hi of s.
RECURSIVE NatOfDigits(_, _, _)
NatOfDigits(s, lo, hi) ==
    IF hi - lo < 4 THEN NatOfInt(DigitsValue(SubSeq(s, lo, hi)))
    ELSE NatAdd(NatMul(NatOfDigits(s, lo, (lo + hi) \div 2),
                       NatPow(<<10>>, hi - ((lo + hi) \div 2))),
                NatOfDigits(s, ((lo + hi) \div 2) + 1, hi))

\* The double nearest to ds * 10^scale, ds being digits with no zero in front.
DecimalToFloat(neg, ds, scale) ==
    LET \* n * 10^scale, f being 5^|scale|
        Value(n, f) ==
            IF scale >= 0 THEN Round53(neg, NatMul(n, f), scale)
            ELSE RoundRational(neg, n, f, scale)
    IN  IF Len(ds) = 0 THEN Zero(neg)
        ELSE Value(NatOfDigits(ds, 1, Len(ds)),
                   NatPow(<<5>>, IF scale >= 0 THEN scale ELSE 0 - scale))

\* The exponent part of a decimal literal: empty, or e, a sign or none, digits.
ExponentOk(x) ==
    \/ Len(x) = 0
    \/ /\ Len(x) >= 2
       /\ IF x[2] \in {"+", "-"} THEN (Len(x) >= 3) /\ AllDigits(SubSeq(x, 3, Len(x)))
          ELSE AllDigits(SubSeq(x, 2, Len(x)))

\* A decimal exponent beyond which every float() is 0.0 or inf.
ExponentCap == 1000000

\* The value of an exponent part that is ExponentOk, at most ExponentCap
\* either way.
ExponentOf(x) ==
    LET ds == StripZeros(IF Len(x) = 0 THEN <<>>
                         ELSE IF x[2] \in {"+", "-"} THEN SubSeq(x, 3, Len(x))
                         ELSE SubSeq(x, 2, Len(x)))
        size == IF Len(ds) > 6 THEN ExponentCap ELSE DigitsValue(ds)
    IN  IF (Len(x) > 0) /\ (x[2] = "-") THEN 0 - size ELSE size

\* Powers of ten beyond which a decimal with a first digit is inf or 0.0.
DecimalRange == 400

\* A decimal literal, given its digits before the point, its digits after
\* the point and its exponent part.  The power of ten that scales the digits
\* ds is kept within the range where the size of the double depends on it.
ParseParts(neg, int, frac, x) ==
    LET Scaled(ds, scale) ==
            DecimalToFloat(neg, ds,
                           IF scale > DecimalRange THEN DecimalRange
                           ELSE IF scale < 0 - (DecimalRange + Len(ds))
                           THEN 0 - (DecimalRange + Len(ds))
                           ELSE scale)
    IN  IF ~(AllDigits(int) /\ AllDigits(frac) /\ (Len(int) + Len(frac) > 0)
                /\ ExponentOk(x))
        THEN [exc |-> "ValueError"]
        ELSE [exc |-> "none",
              val |-> Scaled(StripZeros(int \o frac), ExponentOf(x) - Len(frac))]

\* The literal after its sign, in lower case: inf, infinity, nan, or a
\* decimal m (digits, a point or none, digits) with an exponent part or none.
ParseUnsigned(neg, b) ==
    LET m == SubSeq(b, 1, IndexOf(b, "e") - 1)
    IN  IF (b = <<"i", "n", "f">>) \/ (b = <<"i", "n", "f", "i", "n", "i", "t", "y">>)
        THEN [exc |-> "none", val |-> Infinity(neg)]
        ELSE IF b = <<"n", "a", "n">> THEN [exc |-> "none", val |-> NaN]
        ELSE ParseParts(neg, SubSeq(m, 1, IndexOf(m, ".") - 1),
                        SubSeq(m, IndexOf(m, ".") + 1, Len(m)),
                        SubSeq(b, IndexOf(b, "e"), Len(b)))

\* float(s) of a str: the whitespace around is stripped, underscores may
\* stand between digits, and what is left is a sign or none and then inf,
\* infinity, nan (in any case) or a decimal literal with or without an
\* exponent.
ParseFloat(s) ==
    LET Signed(t) ==
            IF Len(t) = 0 THEN [exc |-> "ValueError"]
            ELSE ParseUnsigned(t[1] = "-",
                               Lower(IF t[1] \in {"+", "-"} THEN Tail(t) ELSE t))
    IN  IF ~UnderscoresOk(Strip(s)) THEN [exc |-> "ValueError"]
        ELSE Signed(SelectSeq(Strip(s), LAMBDA c : c # "_"))

(***************************************************************************)
(* repr(float)                                                             *)
(***************************************************************************)
\* x >= 10^k for a finite double x > 0
AtLeastPowerOfTen(x, k) ==
    LET \* a * 2^s < b
        ScaledLess(a, b, s) ==
            IF s >= 0 THEN NatLess(NatShl(a, s), b) ELSE NatLess(a, NatShl(b, 0 - s))
    IN  IF k >= 0 THEN ~ScaledLess(x.mant, NatPow(<<5>>, k), x.exp - k)
        ELSE ~ScaledLess(NatMul(x.mant, NatPow(<<5>>, 0 - k)), <<1>>, x.exp - k)

\* The place of the decimal point of a finite double x > 0: the p with
\* 10^(p-1) <= x < 10^p, looked for around the estimate that the bit length
\* of x and log10(2) = 0.30103 give.
DecimalPoint(x) ==
    LET estimate == ((NatBitLen(x.mant) + x.exp) * 30103) \div 100000
    IN  CHOOSE p \in (estimate - 1)..(estimate + 2) :
            AtLeastPowerOfTen(x, p - 1) /\ ~AtLeastPowerOfTen(x, p)

\* a / d to the nearest integer, a half to the even one
NatDivHalfEven(a, d) ==
    LET Rounded(dm) ==
            IF \/ NatLess(d, NatShl(dm.rem, 1))
               \/ (NatShl(dm.rem, 1) = d) /\ (NatBit(dm.quot, 0) = 1)
            THEN NatAdd(dm.quot, <<1>>)
            ELSE dm.quot
    IN  Rounded(NatDivMod(a, d))

\* x * 10^k to the nearest integer, a half to the even one, for a finite
\* double x > 0 and a k that leaves at most 17 digits.
ScaledInteger(x, k) ==
    LET \* x * 2^k times or over f = 5^|k|
        Times(m) == IF x.exp + k >= 0 THEN NatShl(m, x.exp + k)
                    ELSE NatShrHalfEven(m, 0 - (x.exp + k))
        Scaled(f) ==
            IF k >= 0 THEN Times(NatMul(x.mant, f))
            ELSE NatDivHalfEven(IF x.exp + k >= 0 THEN NatShl(x.mant, x.exp + k)
                                ELSE x.mant,
                                IF x.exp + k >= 0 THEN f ELSE NatShl(f, 0 - (x.exp + k)))
    IN  Scaled(NatPow(<<5>>, IF k >= 0 THEN k ELSE 0 - k))

\* The decimal d * 10^(p - n) reads back as x; p is DecimalPoint(x).
ReadsBack(x, p, n, d) ==
    LET Same(y) == (y.kind = "finite") /\ (y.mant = x.mant) /\ (y.exp = x.exp)
        \* the double of d * 10^(p - n), f being 5^|p - n|
        Read(f) ==
            Same(IF p - n >= 0 THEN Round53(FALSE, NatMul(d, f), p - n)
                 ELSE RoundRational(FALSE, d, f, p - n))
    IN  Read(NatPow(<<5>>, IF p - n >= 0 THEN p - n ELSE n - p))

\* The integer d of the decimal d * 10^(p - n) that repr writes for x with n
\* digits, zero if no decimal of n digits reads back as x: the decimal
\* nearest to x (a half to the even one) if it reads back, else the one next
\* to x on the other side, which it can be when x is a power of two, the
\* doubles below x lying closer than those above.
ReprDecimal(x, p, n) ==
    LET Pick(d, reading) ==
            IF d \in reading THEN d
            ELSE IF reading = {} THEN <<>>
            ELSE CHOOSE c \in reading : TRUE
        Among(d) ==
            Pick(d, {c \in {d, NatAdd(d, <<1>>), NatSub(d, <<1>>)} : ReadsBack(x, p, n, c)})
    IN  Among(ScaledInteger(x, n - p))

\* Digits that always tell one double from the next.
MaxReprDigits == 17

\* The least number of digits, from n on, of a decimal that reads back as x.
RECURSIVE ShortestFrom(_, _, _)
ShortestFrom(x, p, n) ==
    IF (n = MaxReprDigits) \/ (Len(ReprDecimal(x, p, n)) > 0) THEN n
    ELSE ShortestFrom(x, p, n + 1)

\* The decimal digits of a natural, none for zero.
RECURSIVE NatDecimal(_)
NatDecimal(a) ==
    LET Step(dm) == Append(NatDecimal(dm.quot), Digits[NatToInt(dm.rem) + 1])
    IN  IF Len(a) = 0 THEN <<>> ELSE Step(NatDivMod(a, <<10>>))

\* The digits without the zeros at the end.
StripTrailingZeros(s) ==
    IF \A i \in 1..Len(s) : s[i] = "0" THEN <<>>
    ELSE SubSeq(s, 1, CHOOSE i \in 1..Len(s) :
                        (s[i] # "0") /\ (\A j \in (i + 1)..Len(s) : s[j] = "0"))

\* repr of 0.ds * 10^p, ds being digits with no zero at either end: with an
\* exponent of two digits at least for p below -3 or above 16, else in full.
ReprText(ds, p) ==
    IF (p < -3) \/ (p > 16)
    THEN <<ds[1]>> \o (IF Len(ds) > 1 THEN <<".">> \o Tail(ds) ELSE <<>>)
            \o (IF p < 1 THEN <<"e", "-">> ELSE <<"e", "+">>)
            \o (IF (p > -9) /\ (p < 11) THEN <<"0">> ELSE <<>>)
            \o NatDigits(IF p < 1 THEN 1 - p ELSE p - 1)
    ELSE IF p <= 0 THEN <<"0", ".">> \o [i \in 1..(0 - p) |-> "0"] \o ds
    ELSE IF p >= Len(ds) THEN ds \o [i \in 1..(p - Len(ds)) |-> "0"] \o <<".", "0">>
    ELSE SubSeq(ds, 1, p) \o <<".">> \o SubSeq(ds, p + 1, Len(ds))

\* repr(x): the shortest decimal that reads back as x.  Of a finite x that
\* is not zero, p is the place of the point, n the number of digits and ds
\* the digits; a decimal that rounds up to 10^n moves the point by one.
FloatRepr(x) ==
    LET Text(p, n, ds) == ReprText(StripTrailingZeros(ds), p + (Len(ds) - n))
        OfLength(p, n) == Text(p, n, NatDecimal(ReprDecimal(x, p, n)))
        PointAt(p) == OfLength(p, ShortestFrom(x, p, 1))
    IN  IF x.kind = "nan" THEN <<"n", "a", "n">>
        ELSE IF x.kind = "inf"
        THEN (IF x.neg THEN <<"-", "i", "n", "f">> ELSE <<"i", "n", "f">>)
        ELSE (IF x.neg THEN <<"-">> ELSE <<>>)
                \o (IF Len(x.mant) = 0 THEN <<"0", ".", "0">>
                    ELSE PointAt(DecimalPoint(x)))

(***************************************************************************)
(* Conversions of the cells                                                *)
(***************************************************************************)
\* bool(v)
Truthy(v) ==
    CASE v.tag = "none" -> FALSE
      [] v.tag = "int" -> v.n # 0
      [] v.tag = "float" -> (v.x.kind # "finite") \/ (Len(v.x.mant) > 0)
      [] v.tag = "bigint" -> TRUE
      [] v.tag = "str" -> Len(v.s) > 0
      [] v.tag = "bool" -> v.b
      [] v.tag = "list" -> TRUE
      [] v.tag = "rows" -> Len(v.rows) > 0
      [] v.tag = "cols" -> Len(v.cols) > 0

\* v != ''
NotEmptyStr(v) == ~(v.tag = "str" /\ Len(v.s) = 0)

\* The decimal digits of 10^400.
BigIntDigits == [i \in 1..401 |-> IF i = 1 THEN "1" ELSE "0"]

\* str(v)
PyToStr(v) ==
    CASE v.tag = "none" -> <<"N", "o", "n", "e">>
      [] v.tag = "int" ->
            IF v.n < 0 THEN <<"-">> \o NatDigits(0 - v.n) ELSE NatDigits(v.n)
      [] v.tag = "float" -> FloatRepr(v.x)
      [] v.tag = "bigint" -> BigIntDigits
      [] v.tag = "str" -> v.s
      [] v.tag = "bool" ->
            IF v.b THEN <<"T", "r", "u", "e">> ELSE <<"F", "a", "l", "s", "e">>
      [] v.tag = "list" -> <<"[", "1", "]">>

\* float(v)
PyFloat(v) ==
    CASE v.tag = "int" -> [exc |-> "none", val |-> FloatOfInt(v.n)]
      [] v.tag = "float" -> [exc |-> "none", val |-> v.x]
      [] v.tag = "bool" -> [exc |-> "none", val |-> FloatOfInt(IF v.b THEN 1 ELSE 0)]
      [] v.tag = "str" -> ParseFloat(v.s)
      [] v.tag = "bigint" -> [exc |-> "OverflowError"]
      [] v.tag = "list" -> [exc |-> "TypeError"]
      [] v.tag = "none" -> [exc |-> "TypeError"]

\* row.get(col_name)
RowGet(row, col_name) == IF col_name \in DOMAIN row THEN row[col_name] ELSE None

\* s[start:stop] for ints start, stop (0-based, negative counts from the end).
PySlice(s, start, stop) ==
    LET n == Len(s)
        norm(i) == IF i < 0 THEN (IF i + n < 0 THEN 0 ELSE i + n)
                   ELSE (IF i > n THEN n ELSE i)
    IN  SubSeq(s, norm(start) + 1, norm(stop))

(***************************************************************************)
(* create_data_summary                                                     *)
(***************************************************************************)
\* The mutated sample: the two middle rows are taken one row late.
sample_data_late_middle(data) ==
    IF Len(data) <= 10 THEN data
    ELSE IF Len(data) <= 100 THEN PySlice(data, 0, 10)
    ELSE IF Len(data) <= 500 THEN PySlice(data, 0, 5) \o PySlice(data, -5, Len(data))
    ELSE PySlice(data, 0, 5)
            \o PySlice(data, (Len(data) \div 2) + 1, (Len(data) \div 2) + 3)
            \o PySlice(data, -3, Len(data))

\* The sample chosen by the size tiers; row_count is Len(data) and
\* middle_idx is row_count // 2.
sample_data(data) ==
    IF Len(data) <= 10 THEN data
    ELSE IF Len(data) <= 100 THEN PySlice(data, 0, 10)
    ELSE IF Len(data) <= 500 THEN PySlice(data, 0, 5) \o PySlice(data, -5, Len(data))
    ELSE PySlice(data, 0, 5)
            \o PySlice(data, Len(data) \div 2, (Len(data) \div 2) + 2)
            \o PySlice(data, -3, Len(data))

\* [row.get(col_name) for row in data]
ColumnCells(data, col_name) == [i \in 1..Len(data) |-> RowGet(data[i], col_name)]

\* The list of floats, or the exception of the first conversion that raised.
FloatResult(conv) ==
    LET first == CHOOSE i \in 1..Len(conv) :
                    /\ conv[i].exc # "none"
                    /\ \A j \in 1..(i - 1) : conv[j].exc = "none"
    IN  IF \E i \in 1..Len(conv) : conv[i].exc # "none"
        THEN [exc |-> conv[first].exc]
        ELSE [exc |-> "none", vals |-> [i \in 1..Len(conv) |-> conv[i].val]]

Conversions(kept) == [i \in 1..Len(kept) |-> PyFloat(kept[i])]

ConvertedOnly(conv) == SelectSeq(conv, LAMBDA c : c.exc = "none")

\* The mutated conversion: a value that does not convert is skipped.
FloatAllPerValue(values) ==
    FloatResult(ConvertedOnly(Conversions(SelectSeq(values, NotEmptyStr))))

\* [float(v) for v in values if v != '']
FloatAll(values) == FloatResult(Conversions(SelectSeq(values, NotEmptyStr)))

\* start + s[lo] + ... + s[hi], added from left to right; a nan stays a nan.
RECURSIVE SumFrom(_, _, _, _)
SumFrom(start, s, lo, hi) ==
    IF (start.kind = "nan") \/ (lo > hi) THEN start
    ELSE IF lo = hi THEN FloatAdd(start, s[lo])
    ELSE SumFrom(SumFrom(start, s, lo, (lo + hi) \div 2), s, ((lo + hi) \div 2) + 1, hi)

\* sum(s): the floats are added one by one to the int 0
SeqSum(s) == SumFrom(Zero(FALSE), s, 1, Len(s))

\* min of cur and s[lo..hi]: an item replaces cur when item < cur; nothing
\* is below -inf.
RECURSIVE MinFrom(_, _, _, _)
MinFrom(cur, s, lo, hi) ==
    IF ((cur.kind = "inf") /\ cur.neg) \/ (lo > hi) THEN cur
    ELSE IF lo = hi THEN (IF FloatLess(s[lo], cur) THEN s[lo] ELSE cur)
    ELSE MinFrom(MinFrom(cur, s, lo, (lo + hi) \div 2), s, ((lo + hi) \div 2) + 1, hi)

\* max of cur and s[lo..hi]: an item replaces cur when item > cur; nothing
\* is above inf.
RECURSIVE MaxFrom(_, _, _, _)
MaxFrom(cur, s, lo, hi) ==
    IF ((cur.kind = "inf") /\ ~cur.neg) \/ (lo > hi) THEN cur
    ELSE IF lo = hi THEN (IF FloatLess(cur, s[lo]) THEN s[lo] ELSE cur)
    ELSE MaxFrom(MaxFrom(cur, s, lo, (lo + hi) \div 2), s, ((lo + hi) \div 2) + 1, hi)

\* min(s)
SeqMin(s) == MinFrom(s[1], s, 2, Len(s))

\* max(s)
SeqMax(s) == MaxFrom(s[1], s, 2, Len(s))

\* The body of the try block, given the outcome f of the conversions:
\* ValueError and TypeError are swallowed, any other exception leaves.
NumericStats(f) ==
    IF f.exc \in {"ValueError", "TypeError"} THEN [exc |-> "none", has |-> FALSE]
    ELSE IF f.exc # "none" THEN [exc |-> f.exc, has |-> FALSE]
    ELSE IF Len(f.vals) = 0 THEN [exc |-> "none", has |-> FALSE]
    ELSE [exc |-> "none", has |-> TRUE,
          entry |-> [type |-> "numeric",
                     count |-> Len(f.vals),
                     min |-> Round2(SeqMin(f.vals)),
                     max |-> Round2(SeqMax(f.vals)),
                     avg |-> Round2(FloatDivInt(SeqSum(f.vals), Len(f.vals))),
                     sum |-> Round2(SeqSum(f.vals))]]

\* The number branch, given values, the cells of the column that are not None.
NumericEntry(values) ==
    IF Len(values) = 0 THEN [exc |-> "none", has |-> FALSE]
    ELSE NumericStats(FloatAll(values))

\* The statistics entry of a number column: [exc, has, entry].
numeric_values(data, col_name) ==
    NumericEntry(SelectSeq(ColumnCells(data, col_name), LAMBDA v : v # None))

\* The indices at which a value occurs for the first time.
FirstIndices(values) ==
    SelectSeq([i \in 1..Len(values) |-> i],
              LAMBDA i : \A j \in 1..(i - 1) : values[j] # values[i])

CountOf(values, v) == Cardinality({i \in 1..Len(values) : values[i] = v})

\* value_counts.items(): the distinct values in order of first occurrence,
\* each with its number of occurrences.
value_counts(values) ==
    [k \in 1..Len(FirstIndices(values)) |->
        [value |-> values[FirstIndices(values)[k]],
         count |-> CountOf(values, values[FirstIndices(values)[k]])]]

\* The mutated rank: among items of equal count the later one comes first.
SortRankTiesReversed(items, i) ==
    1 + Cardinality({j \in 1..Len(items) : items[j].count > items[i].count})
      + Cardinality({j \in (i + 1)..Len(items) : items[j].count = items[i].count})

\* The place of items[i] after a stable sort by count, descending: behind
\* every item of greater count and every earlier item of equal count.
SortRank(items, i) ==
    1 + Cardinality({j \in 1..Len(items) : items[j].count > items[i].count})
      + Cardinality({j \in 1..(i - 1) : items[j].count = items[i].count})

\* sorted(items, key=lambda x: x[1], reverse=True)
SortedByCountDesc(items) ==
    [p \in 1..Len(items) |-> items[CHOOSE i \in 1..Len(items) : SortRank(items, i) = p]]

\* f"{(c/total*100):.1f}%" as a number of tenths of a percent, for ints
\* 0 < c <= total: the quotient, its product with 100 and the formatting are
\* each taken on the exact value of the double before.
Percentage(c, total) ==
    Tenths(FloatMulSmall(RoundRational(FALSE, NatOfInt(c), NatOfInt(total), 0), 100))

TopEntries(top, total) ==
    [i \in 1..Len(top) |->
        [value |-> top[i].value, count |-> top[i].count,
         percentage |-> Percentage(top[i].count, total)]]

\* The mutated string branch: an entry is made for a column without values too.
CategoricalEntryUnguarded(values) ==
    [has |-> TRUE,
     entry |-> [type |-> "categorical",
                count |-> Len(values),
                unique_count |-> Cardinality({values[i] : i \in 1..Len(values)}),
                top_values |->
                    TopEntries(PySlice(SortedByCountDesc(value_counts(values)), 0, 5),
                               Len(values))]]

\* The string branch, given values, the str of every truthy cell of the column.
CategoricalEntry(values) ==
    IF Len(values) = 0 THEN [has |-> FALSE]
    ELSE [has |-> TRUE,
          entry |-> [type |-> "categorical",
                     count |-> Len(values),
                     unique_count |-> Cardinality({values[i] : i \in 1..Len(values)}),
                     top_values |->
                        TopEntries(PySlice(SortedByCountDesc(value_counts(values)), 0, 5),
                                   Len(values))]]

StrAll(cells) == [i \in 1..Len(cells) |-> PyToStr(cells[i])]

\* The statistics entry of a string column: [has, entry].
top_values(data, col_name) ==
    CategoricalEntry(StrAll(SelectSeq(ColumnCells(data, col_name), Truthy)))

\* statistics[col_name] = entry
DictSet(d, k, v) == [x \in (DOMAIN d) \cup {k} |-> IF x = k THEN v ELSE d[x]]

EmptyDict == [x \in {} |-> None]

\* One pass of the loop body: what the column adds to statistics.
column_entry(data, col) ==
    IF col.type = "number" THEN numeric_values(data, col.name)
    ELSE IF col.type = "string"
    THEN [exc |-> "none"] @@ top_values(data, col.name)
    ELSE [exc |-> "none", has |-> FALSE]

\* The loop over columns from index i on, acc being the statistics so far.
RECURSIVE statistics(_, _, _, _)
RECURSIVE statistics_step(_, _, _, _, _)
statistics_step(data, columns, i, acc, e) ==
    IF e.exc # "none" THEN [exc |-> e.exc]
    ELSE statistics(data, columns, i + 1,
                    IF e.has THEN DictSet(acc, columns[i].name, e.entry) ELSE acc)

statistics(data, columns, i, acc) ==
    IF i > Len(columns) THEN [exc |-> "none", stats |-> acc]
    ELSE statistics_step(data, columns, i, acc, column_entry(data, columns[i]))

LastIndexOf(columns, k) ==
    CHOOSE i \in 1..Len(columns) :
        /\ columns[i].name = k
        /\ \A j \in (i + 1)..Len(columns) : columns[j].name # k

\* {col['name']: col['type'] for col in columns}
column_types(columns) ==
    [k \in {columns[i].name : i \in 1..Len(columns)} |->
        columns[LastIndexOf(columns, k)].type]

\* The returned dict, given the outcome st of the loop over columns.
summary_of(data, columns, name, st) ==
    IF st.exc # "none" THEN [exc |-> st.exc]
    ELSE [exc |-> "none",
          value |-> [name |-> name,
                     row_count |-> Len(data),
                     columns |-> [i \in 1..Len(columns) |-> columns[i].name],
                     column_types |-> column_types(columns),
                     statistics |-> st.stats,
                     sample |-> PySlice(sample_data(data), 0, 10)]]

create_data_summary(data, columns, name) ==
    summary_of(data, columns, name, statistics(data, columns, 1, EmptyDict))

(***************************************************************************)
(* chat                                                                    *)
(***************************************************************************)
\* A key the JSON body does not hold.
Absent == [tag |-> "absent"]
PyRows(rows) == [tag |-> "rows", rows |-> rows]
PyCols(cols) == [tag |-> "cols", cols |-> cols]

\* data.get(key, default)
DictGet(body, key, default) == IF body[key] = Absent THEN default ELSE body[key]

\* keyword in s
Contains(s, keyword) ==
    \E i \in 0..(Len(s) - Len(keyword)) : SubSeq(s, i + 1, i + Len(keyword)) = keyword

Keywords ==
    <<<<"v", "i", "s", "u", "a", "l">>,
      <<"c", "h", "a", "r", "t">>,
      <<"g", "r", "a", "p", "h">>,
      <<"p", "l", "o", "t">>,
      <<"c", "r", "e", "a", "t", "e", " ", "c", "h", "a", "r", "t">>,
      <<"m", "a", "k", "e", " ", "c", "h", "a", "r", "t">>,
      <<"d", "r", "a", "w">>,
      <<"s", "h", "o", "w", " ", "c", "h", "a", "r", "t">>,
      <<"b", "u", "i", "l", "d", " ", "c", "h", "a", "r", "t">>>>

\* The mutated flag: the query is matched as typed, not lower-cased.
should_navigate_cased(query) ==
    \E k \in 1..Len(Keywords) : Contains(query, Keywords[k])

\* any(keyword in query.lower() for keyword in [...])
should_navigate(query) ==
    LET query_lower == Lower(query)
    IN  \E k \in 1..Len(Keywords) : Contains(query_lower, Keywords[k])

\* The mutated validation: the API key is looked at before the query.
validation_key_first(query, api_key, dataset_data) ==
    IF ~Truthy(api_key) THEN "missing_api_key"
    ELSE IF ~Truthy(query) THEN "missing_query"
    ELSE IF ~Truthy(dataset_data) \/ Len(dataset_data.rows) = 0 THEN "no_data"
    ELSE "ok"

\* The mutated validation: the dataset is tested for None, not for emptiness.
validation_none_check(query, api_key, dataset_data) ==
    IF ~Truthy(query) THEN "missing_query"
    ELSE IF ~Truthy(api_key) THEN "missing_api_key"
    ELSE IF dataset_data = None THEN "no_data"
    ELSE "ok"

\* The three checks of chat, in order; the first that fails returns.
validation(query, api_key, dataset_data) ==
    IF ~Truthy(query) THEN "missing_query"
    ELSE IF ~Truthy(api_key) THEN "missing_api_key"
    ELSE IF ~Truthy(dataset_data) \/ Len(dataset_data.rows) = 0 THEN "no_data"
    ELSE "ok"

\* The classes an exception is an instance of.
Bases(exc) ==
    CASE exc = "ReadTimeout" -> {"ReadTimeout", "Timeout", "RequestException", "Exception"}
      [] exc = "ConnectTimeout" ->
            {"ConnectTimeout", "ConnectionError", "Timeout", "RequestException", "Exception"}
      [] exc = "ConnectionError" -> {"ConnectionError", "RequestException", "Exception"}
      [] exc = "requests.JSONDecodeError" ->
            {"requests.JSONDecodeError", "RequestException", "ValueError", "Exception"}
      [] exc = "json.JSONDecodeError" -> {"json.JSONDecodeError", "ValueError", "Exception"}
      [] exc = "OverflowError" -> {"OverflowError", "ArithmeticError", "Exception"}
      [] exc = "KeyError" -> {"KeyError", "LookupError", "Exception"}

\* str(e)
ExcMessage(exc) ==
    CASE exc = "OverflowError" -> "int too large to convert to float"
      [] exc = "KeyError" -> "'content'"
      [] exc = "json.JSONDecodeError" -> "Expecting value: line 1 column 1 (char 0)"
      [] OTHER -> exc

\* The mutated clauses: the network-error clause comes before the timeout clause.
ExceptClausesTimeoutLast == <<"RequestException", "Timeout", "Exception">>

\* The mutated clauses: no catch-all clause.
ExceptClausesNoCatchAll == <<"Timeout", "RequestException">>

\* The except clauses of chat, in the order they are tried.
ExceptClauses == <<"Timeout", "RequestException", "Exception">>

\* The clause that handles exc: the first one exc is an instance of.
HandlerFor(exc) ==
    IF \E i \in 1..Len(ExceptClauses) : ExceptClauses[i] \in Bases(exc)
    THEN ExceptClauses[CHOOSE i \in 1..Len(ExceptClauses) :
                          /\ ExceptClauses[i] \in Bases(exc)
                          /\ \A j \in 1..(i - 1) : ExceptClauses[j] \notin Bases(exc)]
    ELSE "unhandled"

\* What the clause returns; an exception no clause handles leaves chat.
ErrorResponse(handler, exc) ==
    CASE handler = "Timeout" -> [status |-> 504, body |-> [error |-> "Request timeout"]]
      [] handler = "RequestException" -> [status |-> 500, body |-> [error |-> "Network error"]]
      [] handler = "Exception" -> [status |-> 500, body |-> [error |-> ExcMessage(exc)]]
      [] OTHER -> [status |-> 0, body |-> [propagated |-> exc]]

\* From the reply of the outbound POST to the return of chat: the response,
\* or the exception raised on the way.
reply_mapping(query, reply) ==
    IF reply.status # 200
    THEN [exc |-> "none",
          response |-> [status |-> reply.status,
                        body |-> [error |-> "Gemini API error", code |-> reply.status,
                                  details |-> reply.text]]]
    ELSE IF reply.json = "invalid" THEN [exc |-> reply.decode_error]
    ELSE IF reply.json \in {"no_candidates", "null_candidates", "empty_candidates"}
    THEN [exc |-> "none",
          response |-> [status |-> 500,
                        body |-> [error |-> "No response from Gemini API",
                                  details |-> "API returned empty candidates"]]]
    ELSE IF reply.json = "candidate_without_content" THEN [exc |-> "KeyError"]
    ELSE [exc |-> "none",
          response |-> [status |-> 200,
                        body |-> [response |-> reply.answer,
                                  shouldNavigateToVisualBuilder |-> should_navigate(query)]]]

(***************************************************************************)
(* Inputs                                                                  *)
(***************************************************************************)
Column(name, type) == [name |-> name, type |-> type]

Types == {"number", "string", "date"}

\* A row with cells xv and yv; an Absent cell leaves the key out of the row.
Row(xv, yv) ==
    [k \in {c \in {"x", "y"} : (IF c = "x" THEN xv ELSE yv) # Absent} |->
        IF k = "x" THEN xv ELSE yv]

Abc == <<"a", "b", "c">>

XCells ==
    {Absent, None, PyInt(0), PyInt(2), PyStr(<<>>), PyStr(Abc),
     PyStr(<<"-", "1", ".", "5">>), BigInt}

Rows == {Row(xv, yv) : xv \in XCells, yv \in {Absent, PyInt(5)}}

SeqsUpTo(S, n) == UNION {[1..k -> S] : k \in 0..n}

\* A dataset whose column x holds the cells xs, in order.
XData(xs) == [i \in 1..Len(xs) |-> Row(xs[i], Absent)]

\* [1, 2, 3, "", null, "abc"]
NumberExample ==
    XData(<<PyInt(1), PyInt(2), PyInt(3), PyStr(<<>>), None, PyStr(Abc)>>)

\* [1, 2, 3, "", null]
CleanNumberExample == XData(<<PyInt(1), PyInt(2), PyInt(3), PyStr(<<>>), None>>)

\* ["a", "a", "b", "c", "a"]
CategoricalExample ==
    XData(<<PyStr(<<"a">>), PyStr(<<"a">>), PyStr(<<"b">>), PyStr(<<"c">>), PyStr(<<"a">>)>>)

\* Seven values, six of them distinct: more than top_values keeps.
SixDistinctExample ==
    XData(<<PyStr(<<"a">>), PyStr(<<"b">>), PyStr(<<"b">>), PyStr(<<"c">>),
            PyStr(<<"d">>), PyStr(<<"e">>), PyStr(<<"f">>)>>)

\* A JSON number with a fraction or an exponent, given by its literal: the
\* decoder hands the literal to float().
Real(literal) == PyReal(ParseFloat(literal).val)

\* A number and then a str that float() takes, or one it raises ValueError
\* for: 1__0, _1, 1e, ., +-1, 0x10, 1 0, infinit, 1.5., 1,5, a blank, and 7
\* after the separator U+001C; it takes 7 between a vertical tab and a
\* no-break space.
LiteralExamples ==
    {XData(<<PyInt(1), PyStr(s)>>) :
        s \in {<<"1", "E", "-", "2">>, <<"+", ".", "5", "e", "+", "1">>, <<"-", "0">>,
               <<" ", "-", "n", "a", "n", " ">>, <<"0", "0", "7">>,
               <<"1", "_", "0", ".", "2", "_", "5">>,
               <<"1", "_", "_", "0">>, <<"_", "1">>, <<"1", "e">>, <<".">>,
               <<"+", "-", "1">>, <<"0", "x", "1", "0">>, <<"1", " ", "0">>,
               <<"i", "n", "f", "i", "n", "i", "t">>, <<"1", ".", "5", ".">>,
               <<"1", ",", "5">>, <<" ">>, <<"", "7", " ">>, <<"", "7">>}}

Examples ==
    {NumberExample, CleanNumberExample, CategoricalExample, SixDistinctExample,
     \* values of several types that all convert: True, " 7 ", "+4", -3, 1
     XData(<<PyBool(TRUE), PyStr(<<" ", "7", " ">>), PyStr(<<"+", "4">>), PyInt(-3),
             PyInt(1)>>),
     \* a list among numbers: float([1]) raises TypeError
     XData(<<PyInt(4), PyList, PyStr(<<"4">>), PyBool(FALSE)>>),
     \* eight values of mean 0.125, a tie of round(., 2)
     XData(<<PyInt(1), PyInt(0), PyInt(0), PyInt(0), PyInt(0), PyInt(0), PyInt(0),
             PyInt(0)>>),
     \* strs in more than one notation: "1.5", "1e3", "1_0", ".5", "5.", "\t7\n"
     XData(<<PyStr(<<"1", ".", "5">>), PyStr(<<"1", "e", "3">>), PyStr(<<"1", "_", "0">>),
             PyStr(<<".", "5">>), PyStr(<<"5", ".">>), PyStr(<<"\t", "7", "\n">>)>>),
     \* "inf", "-Infinity", 1: the sum is nan
     XData(<<PyStr(<<"i", "n", "f">>),
             PyStr(<<"-", "I", "n", "f", "i", "n", "i", "t", "y">>), PyInt(1)>>),
     \* "nan", 1, 2: no value is below or above a nan that comes first
     XData(<<PyStr(<<"n", "a", "n">>), PyInt(1), PyInt(2)>>),
     \* 1, 2, "NaN": a nan that comes last is passed over by min and max
     XData(<<PyInt(1), PyInt(2), PyStr(<<"N", "a", "N">>)>>),
     \* the floats 2.675, 1.005, 0.125, -0.001: only 0.125 is the decimal it is
     \* written as, and round(-0.001, 2) is -0.0
     XData(<<Real(<<"2", ".", "6", "7", "5">>), Real(<<"1", ".", "0", "0", "5">>),
             Real(<<"0", ".", "1", "2", "5">>), Real(<<"-", "0", ".", "0", "0", "1">>)>>),
     \* the floats 0.1, 0.2, 0.0, 1e16, 0.00001, 1e15, 0.0001 and 2^-24: their
     \* sum is not exact, 0.0 is not truthy, str writes some with an exponent,
     \* and 2^-24 with the 16 digits of a decimal that is not the nearest to it
     XData(<<Real(<<"0", ".", "1">>), Real(<<"0", ".", "2">>), Real(<<"0", ".", "0">>),
             Real(<<"1", "e", "1", "6">>), Real(<<"0", ".", "0", "0", "0", "0", "1">>),
             Real(<<"1", "e", "1", "5">>), Real(<<"0", ".", "0", "0", "0", "1">>),
             Real(<<"5", ".", "9", "6", "0", "4", "6", "4", "4", "7", "7", "5", "3", "9",
                    "0", "6", "3", "e", "-", "0", "8">>)>>),
     \* "1e400", "9007199254740993", "-1e-400": inf, 2^53 and -0.0
     XData(<<PyStr(<<"1", "e", "4", "0", "0">>),
             PyStr(<<"9", "0", "0", "7", "1", "9", "9", "2", "5", "4", "7", "4", "0", "9",
                     "9", "3">>),
             PyStr(<<"-", "1", "e", "-", "4", "0", "0">>)>>)}
    \cup LiteralExamples

\* The column lists: every typing of a prefix of (x, y), and lists naming x twice.
ColumnLists ==
    {<<>>}
    \cup {<<Column("x", t)>> : t \in Types}
    \cup {<<Column("x", t), Column("y", u)>> : t \in Types, u \in Types}
    \cup {<<Column("x", "number"), Column("x", "date")>>,
          <<Column("x", "date"), Column("x", "string")>>}

\* Generated datasets of n rows: all cells distinct, or cells that repeat.
DistinctData(n) == [i \in 1..n |-> Row(PyInt(i), Absent)]

RepeatingData(n) == [i \in 1..n |-> Row(PyInt(i % 7), PyStr(<<"r">>))]

\* A row count at which a percentage is not the nearest to the exact
\* quotient: 1 value in 2000 is formatted "0.1%".
LargeSample == 2000

\* Row counts around every tier of the sampling policy.
SampleSizes ==
    (0..12) \cup {50} \cup (98..102) \cup {250} \cup (498..MaxSampleRows) \cup {LargeSample}

SampleInputs ==
    {[data |-> DistinctData(n), columns |-> cols] :
        n \in SampleSizes, cols \in {<<>>, <<Column("x", "number")>>}}
    \cup {[data |-> RepeatingData(n), columns |-> cols] :
            n \in SampleSizes,
            cols \in {<<Column("x", "string")>>,
                      <<Column("x", "number"), Column("y", "string")>>}}

SummaryInputs ==
    {[data |-> d, columns |-> cols] :
        d \in SeqsUpTo(Rows, MaxRows) \cup Examples, cols \in ColumnLists}

DatasetName == <<"S", "a", "l", "e", "s">>

QueryMakeChart == <<"p", "l", "e", "a", "s", "e", " ", "m", "a", "k", "e", " ", "c", "h", "a", "r", "t", " ", "o", "f", " ", "s", "a", "l", "e", "s">>

QueryTotalSales == <<"w", "h", "a", "t", " ", "i", "s", " ", "t", "o", "t", "a", "l", " ", "s", "a", "l", "e", "s">>

QueryUpperGraph == <<"S", "h", "o", "w", " ", "G", "R", "A", "P", "H">>

\* The query field: absent, null, empty, or a str.
Queries ==
    {Absent, None, PyStr(<<>>)}
    \cup {PyStr(q) : q \in {QueryMakeChart, QueryTotalSales, QueryUpperGraph,
                            <<"D", "r", "a", "w", " ", "i", "t">>,
                            <<"p", "l", "o", "t", "s">>,
                            <<"V", "i", "s", "u", "a", "l", "s">>,
                            <<"c", "h", "a", "r", " ", "t">>,
                            <<"G", "R", "À", "P", "H", "I", "Q", "U", "E">>}}

ApiKeys == {Absent, None, PyStr(<<>>), PyStr(<<"k">>)}

ChatRows == {Row(PyInt(1), Absent), Row(PyStr(Abc), Absent), Row(BigInt, Absent)}

ChatData == {Absent, None} \cup {PyRows(d) : d \in SeqsUpTo(ChatRows, MaxChatRows)}

ChatColumns ==
    {Absent, PyCols(<<Column("x", "number")>>), PyCols(<<Column("x", "string")>>)}

ChatBodies ==
    {[query |-> q, name |-> n, data |-> d, columns |-> c, api_key |-> k] :
        q \in Queries, n \in {Absent, PyStr(DatasetName)}, d \in ChatData,
        c \in ChatColumns, k \in ApiKeys}

\* What the outbound POST can come to.
Replies ==
    {[status |-> s, text |-> "error text"] : s \in {400, 403, 404, 429, 500, 503}}
    \cup {[status |-> 200, json |-> j] :
            j \in {"no_candidates", "null_candidates", "empty_candidates",
                   "candidate_without_content"}}
    \* a body that is not JSON: response.json() raises the decode error of
    \* requests (a RequestException) or, with older releases, that of json
    \cup {[status |-> 200, json |-> "invalid", decode_error |-> e] :
            e \in {"requests.JSONDecodeError", "json.JSONDecodeError"}}
    \cup {[status |-> 200, json |-> "candidates", answer |-> a] :
            a \in {"Total is 42", "Here is a chart"}}

UpstreamOutcomes ==
    {[kind |-> "raise", exc |-> e] : e \in {"ReadTimeout", "ConnectTimeout", "ConnectionError"}}
    \cup {[kind |-> "reply", reply |-> r] : r \in Replies}

(***************************************************************************)
(* State machine                                                           *)
(***************************************************************************)
\* Nothing has been called, posted or returned yet.
InitRest ==
    /\ summary = [exc |-> "not called"]
    /\ summaries = 0
    /\ posts = 0
    /\ upstream = [kind |-> "none"]
    /\ response = [status |-> 0, body |-> [none |-> TRUE]]
    /\ responses = 0
    /\ caught = "none"

\* A direct call of create_data_summary on the generated datasets.
InitSample ==
    /\ \E in \in SampleInputs :
          request = [query |-> Absent, name |-> PyStr(DatasetName),
                     data |-> PyRows(in.data), columns |-> PyCols(in.columns),
                     api_key |-> Absent]
    /\ pc = "call"
    /\ InitRest

\* A direct call of create_data_summary on the small datasets and the examples.
InitSummary ==
    /\ \E in \in SummaryInputs :
          request = [query |-> Absent, name |-> PyStr(DatasetName),
                     data |-> PyRows(in.data), columns |-> PyCols(in.columns),
                     api_key |-> Absent]
    /\ pc = "call"
    /\ InitRest

\* A POST /api/chat with a JSON object as its body.
InitChat ==
    /\ \E body \in ChatBodies : request = body
    /\ pc = "received"
    /\ InitRest

\* create_data_summary(data, columns, name), called directly.
Summarize ==
    /\ pc = "call"
    /\ summary' = create_data_summary(request.data.rows, request.columns.cols, request.name.s)
    /\ summaries' = summaries + 1
    /\ pc' = "returned"
    /\ UNCHANGED <<request, posts, upstream, response, responses, caught>>

\* The request parameters chat extracts from the body.
query_of(body) == DictGet(body, "query", None)

dataset_name_of(body) ==
    DictGet(body, "name", PyStr(<<"D", "a", "t", "a", "s", "e", "t">>))

dataset_data_of(body) == DictGet(body, "data", PyRows(<<>>))

dataset_columns_of(body) == DictGet(body, "columns", PyCols(<<>>))

api_key_of(body) == DictGet(body, "api_key", None)

chat_validation(body) == validation(query_of(body), api_key_of(body), dataset_data_of(body))

\* The response of the check that failed.  The text for no data is the
\* code's without the warning sign and the space it starts with.
EarlyResponse(check) ==
    CASE check = "missing_query" ->
            [status |-> 400, body |-> [error |-> "Missing query parameter"]]
      [] check = "missing_api_key" ->
            [status |-> 400, body |-> [error |-> "Missing API key"]]
      [] check = "no_data" ->
            [status |-> 200,
             body |-> [response |->
                          "**No Data Available**\n\nPlease upload a dataset first to analyze.",
                       shouldNavigateToVisualBuilder |-> FALSE]]

\* chat on a request that fails a check: the early return.
ChatReject ==
    /\ pc = "received"
    /\ chat_validation(request) # "ok"
    /\ response' = EarlyResponse(chat_validation(request))
    /\ responses' = responses + 1
    /\ pc' = "done"
    /\ UNCHANGED <<request, summary, summaries, posts, upstream, caught>>

\* chat on a request that passes the checks: the summary is built and the
\* outbound POST is issued, unless create_data_summary raises.  The prompt
\* build_gemini_prompt makes of the summary goes into the payload only.
ChatSummarize ==
    /\ pc = "received"
    /\ chat_validation(request) = "ok"
    /\ summary' = create_data_summary(dataset_data_of(request).rows,
                                      dataset_columns_of(request).cols,
                                      dataset_name_of(request).s)
    /\ summaries' = summaries + 1
    /\ IF summary'.exc # "none"
       THEN /\ caught' = HandlerFor(summary'.exc)
            /\ response' = ErrorResponse(caught', summary'.exc)
            /\ responses' = responses + (IF caught' = "unhandled" THEN 0 ELSE 1)
            /\ pc' = "done"
            /\ posts' = posts
       ELSE /\ posts' = posts + 1
            /\ pc' = "posted"
            /\ UNCHANGED <<response, responses, caught>>
    /\ UNCHANGED <<request, upstream>>

\* What the rest of chat comes to, given the outcome of the outbound POST.
outcome_mapping(query, outcome) ==
    IF outcome.kind = "raise" THEN [exc |-> outcome.exc]
    ELSE reply_mapping(query, outcome.reply)

Returned(mapped) ==
    /\ response' = (IF mapped.exc = "none" THEN mapped.response
                    ELSE ErrorResponse(HandlerFor(mapped.exc), mapped.exc))
    /\ caught' = (IF mapped.exc = "none" THEN "none" ELSE HandlerFor(mapped.exc))
    /\ responses' = responses + (IF caught' = "unhandled" THEN 0 ELSE 1)

\* chat, from the outcome of the outbound POST to its return.
ChatComplete ==
    /\ pc = "posted"
    /\ \E outcome \in UpstreamOutcomes :
          /\ upstream' = outcome
          /\ Returned(outcome_mapping(query_of(request).s, outcome))
    /\ pc' = "done"
    /\ UNCHANGED <<request, summary, summaries, posts>>

NextChat == ChatReject \/ ChatSummarize \/ ChatComplete

SpecSample == InitSample /\ [][Summarize]_vars

SpecSummary == InitSummary /\ [][Summarize]_vars

SpecChat == InitChat /\ [][NextChat]_vars

Spec == SpecChat

(***************************************************************************)
(* Properties of create_data_summary                                       *)
(***************************************************************************)
\* The arguments and the result of the direct call.
ArgData == request.data.rows

ArgColumns == request.columns.cols

Returned_ok == pc = "returned" /\ summary.exc = "none"

\* The column at index i is the only one of its name.
UniqueName(i) == \A j \in 1..Len(ArgColumns) : ArgColumns[j].name = ArgColumns[i].name => j = i

\* The row of data (1-based) the claim puts at place i of the sample.
SampleRowIndex(n, i) ==
    IF n <= 100 THEN i
    ELSE IF n <= 500 THEN (IF i <= 5 THEN i ELSE n - 10 + i)
    ELSE IF i <= 5 THEN i
    ELSE IF i <= 7 THEN (n \div 2) + (i - 5)
    ELSE n - 10 + i

\* C1: the sample is all rows when n <= 10, the first 10 rows when
\* 10 < n <= 100, the first 5 and the last 5 rows when 100 < n <= 500, and the
\* first 5 rows, the rows at indices n//2 and n//2+1 and the last 3 rows when
\* n > 500; it always has min(n, 10) rows.
C1_SampleTiers ==
    pc = "returned" =>
        /\ summary.exc = "none"
        /\ Len(summary.value.sample) = Min(Len(ArgData), 10)
        /\ \A i \in 1..Len(summary.value.sample) :
              summary.value.sample[i] = ArgData[SampleRowIndex(Len(ArgData), i)]

\* A dataset beyond 500 rows whose sixth sample row is the row at index n//2.
C1_Witness ==
    /\ Returned_ok
    /\ Len(ArgData) > 500
    /\ Len(summary.value.sample) = 10
    /\ summary.value.sample[6] = ArgData[(Len(ArgData) \div 2) + 1]
    /\ summary.value.sample[6] # ArgData[6]

\* The cells of column k that are not null and not the empty string.
Candidates(k) ==
    SelectSeq([r \in 1..Len(ArgData) |-> RowGet(ArgData[r], k)],
              LAMBDA v : v # None /\ v # PyStr(<<>>))

Converts(v) == PyFloat(v).exc = "none"

\* The float of cell i of vs.
ValueOf(vs, i) == PyFloat(vs[i]).val

NoNan(vs) == \A j \in 1..Len(vs) : ValueOf(vs, j).kind # "nan"

\* The floats of the first n cells of vs, added in row order.
RECURSIVE SumOver(_, _)
SumOver(vs, n) ==
    IF n = 0 THEN Zero(FALSE) ELSE FloatAdd(SumOver(vs, n - 1), ValueOf(vs, n))

\* entry holds the numeric statistics of the cells vs, all of which convert:
\* the count, and to two decimal places a least and a greatest value (a value
\* of the column in any case, nan being neither below nor above a number),
\* the sum and the mean.
IsNumericStatsOf(entry, vs) ==
    /\ entry.type = "numeric"
    /\ entry.count = Len(vs)
    /\ \E i \in 1..Len(vs) :
          /\ entry.min = Round2(ValueOf(vs, i))
          /\ NoNan(vs) => \A j \in 1..Len(vs) : ~FloatLess(ValueOf(vs, j), ValueOf(vs, i))
    /\ \E i \in 1..Len(vs) :
          /\ entry.max = Round2(ValueOf(vs, i))
          /\ NoNan(vs) => \A j \in 1..Len(vs) : ~FloatLess(ValueOf(vs, i), ValueOf(vs, j))
    /\ entry.sum = Round2(SumOver(vs, Len(vs)))
    /\ entry.avg = Round2(FloatDivInt(SumOver(vs, Len(vs)), Len(vs)))

\* C2 as stated: a number column's statistics are those of exactly the
\* values that are not null, not the empty string and convert to a float, and
\* the column is omitted only if no value is left.
C2_PerValueTolerance ==
    Returned_ok =>
        \A i \in 1..Len(ArgColumns) :
            (ArgColumns[i].type = "number" /\ UniqueName(i)) =>
                IF \E j \in 1..Len(Candidates(ArgColumns[i].name)) :
                        Converts(Candidates(ArgColumns[i].name)[j])
                THEN /\ ArgColumns[i].name \in DOMAIN summary.value.statistics
                     /\ IsNumericStatsOf(summary.value.statistics[ArgColumns[i].name],
                                         SelectSeq(Candidates(ArgColumns[i].name), Converts))
                ELSE ArgColumns[i].name \notin DOMAIN summary.value.statistics

\* The exception of the first of the cells vs that does not convert, "none"
\* when every one converts.
FirstFailure(vs) ==
    IF \A j \in 1..Len(vs) : Converts(vs[j]) THEN "none"
    ELSE PyFloat(vs[CHOOSE j \in 1..Len(vs) :
                        (~Converts(vs[j])) /\ (\A h \in 1..(j - 1) : Converts(vs[h]))]).exc

\* The number columns, by index, whose conversion raises an exception other
\* than ValueError and TypeError.
Uncaught ==
    {i \in 1..Len(ArgColumns) :
        /\ ArgColumns[i].type = "number"
        /\ FirstFailure(Candidates(ArgColumns[i].name))
                \notin {"none", "ValueError", "TypeError"}}

\* C2 as amended: unparseable values are tolerated per column, not per
\* value.  The values of a number column that are not null and not the empty
\* string are converted in row order.  The call raises exactly when, in some
\* number column, the first conversion that fails raises an exception other
\* than ValueError and TypeError, and it raises that exception of the first
\* such column.  Otherwise it returns, and a number column whose name is
\* declared once has a statistics entry exactly when it has such a value and
\* every one converts, the entry being computed over all of them; one value
\* that raises ValueError or TypeError leaves the column out.
\* [1, 2, 3, "", null, "abc"] gives no entry, [1, 2, 3, "", null] gives
\* count 3, min 1, max 3, avg 2.0, sum 6.0.
C2_PerColumnTolerance ==
    pc = "returned" =>
        /\ IF Uncaught = {} THEN summary.exc = "none"
           ELSE summary.exc =
                    FirstFailure(Candidates(
                        ArgColumns[CHOOSE i \in Uncaught : \A j \in Uncaught : i <= j].name))
        /\ summary.exc = "none" =>
              \A i \in 1..Len(ArgColumns) :
                  (ArgColumns[i].type = "number" /\ UniqueName(i)) =>
                      IF /\ Len(Candidates(ArgColumns[i].name)) > 0
                         /\ FirstFailure(Candidates(ArgColumns[i].name)) = "none"
                      THEN /\ ArgColumns[i].name \in DOMAIN summary.value.statistics
                           /\ IsNumericStatsOf(summary.value.statistics[ArgColumns[i].name],
                                               Candidates(ArgColumns[i].name))
                      ELSE ArgColumns[i].name \notin DOMAIN summary.value.statistics
        /\ (ArgData = NumberExample /\ ArgColumns = <<Column("x", "number")>>) =>
              /\ summary.exc = "none"
              /\ "x" \notin DOMAIN summary.value.statistics
        /\ (ArgData = CleanNumberExample /\ ArgColumns = <<Column("x", "number")>>) =>
              /\ summary.exc = "none"
              /\ "x" \in DOMAIN summary.value.statistics
              /\ summary.value.statistics["x"] =
                    [type |-> "numeric", count |-> 3, min |-> FloatOfInt(1),
                     max |-> FloatOfInt(3), avg |-> FloatOfInt(2), sum |-> FloatOfInt(6)]

\* The summary of [1, 2, 3, "", null, "abc"] as a number column: no entry.
C2_Witness ==
    /\ Returned_ok
    /\ ArgData = NumberExample
    /\ ArgColumns = <<Column("x", "number")>>
    /\ "x" \notin DOMAIN summary.value.statistics

\* The str of the truthy cells of column k, in row order.
TruthyStrs(k) ==
    StrAll(SelectSeq([r \in 1..Len(ArgData) |-> RowGet(ArgData[r], k)], Truthy))

Occurrences(vs, v) == Cardinality({i \in 1..Len(vs) : vs[i] = v})

FirstAt(vs, v) == CHOOSE i \in 1..Len(vs) : vs[i] = v /\ \A j \in 1..(i - 1) : vs[j] # v

\* v comes before w in the order of the claim: more occurrences, or as many
\* and an earlier first occurrence.
Before(vs, v, w) ==
    \/ Occurrences(vs, v) > Occurrences(vs, w)
    \/ Occurrences(vs, v) = Occurrences(vs, w) /\ FirstAt(vs, v) < FirstAt(vs, w)

\* entry holds the categorical statistics of the values vs.
IsCategoricalStatsOf(entry, vs) ==
    /\ entry.type = "categorical"
    /\ entry.count = Len(vs)
    /\ entry.unique_count = Cardinality({vs[i] : i \in 1..Len(vs)})
    /\ Len(entry.top_values) = Min(5, Cardinality({vs[i] : i \in 1..Len(vs)}))
    /\ \A p \in 1..Len(entry.top_values) :
          /\ \E i \in 1..Len(vs) : vs[i] = entry.top_values[p].value
          /\ entry.top_values[p].count = Occurrences(vs, entry.top_values[p].value)
    /\ \A p \in 1..Len(entry.top_values) : \A q \in (p + 1)..Len(entry.top_values) :
          Before(vs, entry.top_values[p].value, entry.top_values[q].value)
    /\ \A i \in 1..Len(vs) :
          \/ \E p \in 1..Len(entry.top_values) : entry.top_values[p].value = vs[i]
          \/ \A p \in 1..Len(entry.top_values) : Before(vs, entry.top_values[p].value, vs[i])

\* C6: a string column's top_values are the distinct str values of its
\* truthy cells, ordered by count descending, ties by first occurrence, at
\* most 5 of them; unique_count is the number of distinct values and count
\* the number of truthy cells.  ["a", "a", "b", "c", "a"] gives unique_count
\* 3 and a(3), b(1), c(1).
C6_TopValues ==
    Returned_ok =>
        /\ \A i \in 1..Len(ArgColumns) :
              (ArgColumns[i].type = "string" /\ UniqueName(i)
                  /\ Len(TruthyStrs(ArgColumns[i].name)) > 0) =>
                  /\ ArgColumns[i].name \in DOMAIN summary.value.statistics
                  /\ IsCategoricalStatsOf(summary.value.statistics[ArgColumns[i].name],
                                          TruthyStrs(ArgColumns[i].name))
        /\ (ArgData = CategoricalExample /\ ArgColumns = <<Column("x", "string")>>) =>
              /\ "x" \in DOMAIN summary.value.statistics
              /\ summary.value.statistics["x"].unique_count = 3
              /\ summary.value.statistics["x"].top_values =
                    <<[value |-> <<"a">>, count |-> 3, percentage |-> 600],
                      [value |-> <<"b">>, count |-> 1, percentage |-> 200],
                      [value |-> <<"c">>, count |-> 1, percentage |-> 200]>>

\* A column of six distinct values: five are kept, a tie is kept in input order.
C6_Witness ==
    /\ Returned_ok
    /\ ArgData = SixDistinctExample
    /\ ArgColumns = <<Column("x", "string")>>
    /\ "x" \in DOMAIN summary.value.statistics
    /\ summary.value.statistics["x"].unique_count = 6
    /\ Len(summary.value.statistics["x"].top_values) = 5
    /\ summary.value.statistics["x"].top_values[1].value = <<"b">>
    /\ summary.value.statistics["x"].top_values[2].value = <<"a">>

\* Some row holds a value for k that is not null and not the empty string.
HasValue(k) ==
    \E r \in 1..Len(ArgData) :
        /\ k \in DOMAIN ArgData[r]
        /\ ArgData[r][k] # None
        /\ ArgData[r][k] # PyStr(<<>>)

\* C8: statistics has an entry for a name only if a column of that name is
\* declared number or string and some row holds a non-null, non-empty value
\* for it; columns and column_types list every supplied column.
C8_StatisticsKeys ==
    Returned_ok =>
        /\ \A k \in DOMAIN summary.value.statistics :
              /\ \E i \in 1..Len(ArgColumns) :
                    ArgColumns[i].name = k /\ ArgColumns[i].type \in {"number", "string"}
              /\ HasValue(k)
        /\ \A i \in 1..Len(ArgColumns) :
              (ArgColumns[i].type \notin {"number", "string"} /\ UniqueName(i)) =>
                  ArgColumns[i].name \notin DOMAIN summary.value.statistics
        /\ Len(summary.value.columns) = Len(ArgColumns)
        /\ \A i \in 1..Len(ArgColumns) :
              /\ summary.value.columns[i] = ArgColumns[i].name
              /\ ArgColumns[i].name \in DOMAIN summary.value.column_types
              /\ UniqueName(i) =>
                    summary.value.column_types[ArgColumns[i].name] = ArgColumns[i].type

\* A date column that holds values and a string column that holds none:
\* both are listed, neither has statistics.
C8_Witness ==
    /\ Returned_ok
    /\ ArgColumns = <<Column("x", "string"), Column("y", "date")>>
    /\ HasValue("y")
    /\ ~HasValue("x")
    /\ Len(ArgData) > 0
    /\ summary.value.columns = <<"x", "y">>
    /\ DOMAIN summary.value.statistics = {}

\* C9 as stated: whatever the values of a number column, no exception
\* leaves create_data_summary, and the column is left out of statistics when
\* none of its non-null, non-empty values converts or when one conversion
\* raises.
C9_ConversionFailuresSwallowed ==
    pc = "returned" =>
        /\ summary.exc = "none"
        /\ \A i \in 1..Len(ArgColumns) :
              (/\ ArgColumns[i].type = "number"
               /\ UniqueName(i)
               /\ \E j \in 1..Len(Candidates(ArgColumns[i].name)) :
                      ~Converts(Candidates(ArgColumns[i].name)[j])) =>
                  ArgColumns[i].name \notin DOMAIN summary.value.statistics

(***************************************************************************)
(* Properties of chat                                                      *)
(***************************************************************************)
\* A required field that is absent or empty.
Missing(field) == field \in {Absent, None, PyStr(<<>>)}

\* C3: a request without a query is answered 400 "Missing query parameter",
\* otherwise a request without an API key is answered 400 "Missing API key",
\* whatever data and columns hold; neither create_data_summary nor the
\* outbound POST is executed.
C3_ValidationOrder ==
    /\ Missing(request.query) =>
          /\ summaries = 0 /\ posts = 0
          /\ pc # "received" =>
                /\ pc = "done"
                /\ response.status = 400
                /\ DOMAIN response.body = {"error"}
                /\ response.body.error = "Missing query parameter"
    /\ (~Missing(request.query) /\ Missing(request.api_key)) =>
          /\ summaries = 0 /\ posts = 0
          /\ pc # "received" =>
                /\ pc = "done"
                /\ response.status = 400
                /\ DOMAIN response.body = {"error"}
                /\ response.body.error = "Missing API key"

\* A request that lacks both the query and the API key and carries rows
\* and columns: it is answered for the query.
C3_Witness ==
    /\ pc = "done"
    /\ Missing(request.query)
    /\ Missing(request.api_key)
    /\ request.data \notin {Absent, None}
    /\ Len(request.data.rows) > 0
    /\ request.columns # Absent
    /\ response.status = 400
    /\ response.body.error = "Missing query parameter"

\* C4: a request with a query and an API key whose data is empty or absent
\* is answered 200 with the guidance text and shouldNavigateToVisualBuilder
\* false, whatever the query; no summary is built and no POST is issued.
C4_NoDataGuidance ==
    (/\ ~Missing(request.query)
     /\ ~Missing(request.api_key)
     /\ request.data \in {Absent, PyRows(<<>>)}) =>
        /\ summaries = 0 /\ posts = 0
        /\ pc # "received" =>
              /\ pc = "done"
              /\ response.status = 200
              /\ DOMAIN response.body = {"response", "shouldNavigateToVisualBuilder"}
              /\ response.body.response =
                    "**No Data Available**\n\nPlease upload a dataset first to analyze."
              /\ response.body.shouldNavigateToVisualBuilder = FALSE

\* A query that asks for a chart, sent with an empty data list.
C4_Witness ==
    /\ pc = "done"
    /\ request.query = PyStr(QueryMakeChart)
    /\ ~Missing(request.api_key)
    /\ request.data = PyRows(<<>>)
    /\ response.status = 200
    /\ response.body.shouldNavigateToVisualBuilder = FALSE

\* C5: once the outbound POST is issued, the status chat returns follows
\* from its outcome: 504 for a timeout, 500 "Network error" for another
\* network failure, s for a reply of status s other than 200, 500 for a 200
\* without candidates, 200 for a 200 with a well-formed first candidate.
C5_UpstreamMapping ==
    (pc = "done" /\ posts = 1) =>
        /\ (upstream.kind = "raise" /\ upstream.exc \in {"ReadTimeout", "ConnectTimeout"}) =>
              response.status = 504
        /\ (upstream.kind = "raise" /\ upstream.exc = "ConnectionError") =>
              response.status = 500 /\ response.body = [error |-> "Network error"]
        /\ (upstream.kind = "reply" /\ upstream.reply.status # 200) =>
              response.status = upstream.reply.status /\ "error" \in DOMAIN response.body
        /\ (/\ upstream.kind = "reply"
            /\ upstream.reply.status = 200
            /\ upstream.reply.json \in {"no_candidates", "null_candidates", "empty_candidates"}) =>
              response.status = 500 /\ "error" \in DOMAIN response.body
        /\ (/\ upstream.kind = "reply"
            /\ upstream.reply.status = 200
            /\ upstream.reply.json = "candidates") =>
              response.status = 200 /\ response.body.response = upstream.reply.answer

\* The outbound POST timed out and chat answered 504.
C5_Witness ==
    /\ pc = "done"
    /\ posts = 1
    /\ upstream = [kind |-> "raise", exc |-> "ReadTimeout"]
    /\ response.status = 504

\* The keywords as the claim lists them.
ClaimKeywords ==
    {<<"v", "i", "s", "u", "a", "l">>, <<"c", "h", "a", "r", "t">>,
     <<"g", "r", "a", "p", "h">>, <<"p", "l", "o", "t">>, <<"d", "r", "a", "w">>,
     <<"c", "r", "e", "a", "t", "e", " ", "c", "h", "a", "r", "t">>,
     <<"m", "a", "k", "e", " ", "c", "h", "a", "r", "t">>,
     <<"s", "h", "o", "w", " ", "c", "h", "a", "r", "t">>,
     <<"b", "u", "i", "l", "d", " ", "c", "h", "a", "r", "t">>}

\* q holds kw at some offset, letter case of q aside.
HoldsIgnoringCase(q, kw) ==
    \E o \in 0..(Len(q) - Len(kw)) :
        \A j \in 1..Len(kw) : Lower(<<q[o + j]>>) = <<kw[j]>>

SuccessFromCandidate ==
    /\ pc = "done"
    /\ upstream.kind = "reply"
    /\ upstream.reply.status = 200
    /\ upstream.reply.json = "candidates"

\* C7: in a success response built from an upstream candidate,
\* shouldNavigateToVisualBuilder is true exactly when the lower-cased query
\* holds one of the keywords; "please make chart of sales" gives true and
\* "what is total sales" gives false.
C7_NavigateFlag ==
    SuccessFromCandidate =>
        /\ response.status = 200
        /\ response.body.shouldNavigateToVisualBuilder =
              (\E kw \in ClaimKeywords : HoldsIgnoringCase(request.query.s, kw))
        /\ request.query.s = QueryMakeChart => response.body.shouldNavigateToVisualBuilder
        /\ request.query.s = QueryTotalSales => ~response.body.shouldNavigateToVisualBuilder

\* A query whose keyword is typed in capitals, answered with the flag set.
C7_Witness ==
    /\ SuccessFromCandidate
    /\ request.query.s = QueryUpperGraph
    /\ response.status = 200
    /\ response.body.shouldNavigateToVisualBuilder = TRUE

\* C10: an invocation of chat issues at most one outbound POST and returns
\* exactly one response; once it has returned nothing more happens, and an
\* exception raised on the way is answered by an except clause (500, or 504
\* for a timeout), never left to propagate.
C10_SingleCallSingleResponse ==
    /\ posts <= 1
    /\ responses <= 1
    /\ pc = "posted" => (posts = 1 /\ responses = 0)
    /\ pc = "done" =>
          /\ responses = 1
          /\ caught # "unhandled"
          /\ caught = "Timeout" => response.status = 504
          /\ caught \in {"RequestException", "Exception"} => response.status = 500
          /\ ~ENABLED NextChat

\* A reply whose first candidate has no content: the KeyError is answered 500.
C10_Witness ==
    /\ pc = "done"
    /\ posts = 1
    /\ responses = 1
    /\ upstream.kind = "reply"
    /\ upstream.reply.status = 200
    /\ upstream.reply.json = "candidate_without_content"
    /\ caught = "Exception"
    /\ response.status = 500

====
